---------------------------- MODULE Spec2Model ----------------------------
(***************************************************************************)
(* State-machine model of the Whiteboard component                         *)
(* (src/src/components/Whiteboard.tsx): the scene (elements), the linear   *)
(* undo/redo history of scene snapshots, the tool/style state and the      *)
(* pointer/keyboard driven interaction state machine.                      *)
(*                                                                         *)
(* Every event handler is one atomic action evaluated on the latest React  *)
(* state: pointer-down, pointer-up, key-down and click are discrete events *)
(* whose state updates are flushed before the next event is dispatched.    *)
(* The handlers may fire in any order: the canvas wrapper binds only       *)
(* down/move/up (no leave/cancel), so a pointer-up released outside the    *)
(* wrapper is never delivered and a second pointer-down may follow a first *)
(* one.                                                                    *)
(*                                                                         *)
(* Indices: historyIndex keeps the 0-based JavaScript value (-1 = before   *)
(* the first entry); the TLA+ sequence `history` is 1-based, so the entry  *)
(* history[i] of the source is history[i + 1] here.                        *)
(***************************************************************************)
EXTENDS Integers, Sequences, FiniteSets, TLC

VARIABLES
    elements,        \* useState<Element[]>([])            (line 28)
    history,         \* useState<Element[][]>([])          (line 29)
    historyIndex,    \* useState(-1)                       (line 30)
    tool,            \* useState<Tool>('pen')              (line 32)
    color,           \* useState('#2563eb')                (line 33)
    lineWidth,       \* useState(5)                        (line 34)
    action,          \* 'none' | 'drawing' | 'moving'      (line 36)
    selectedId,      \* string | null                      (line 37)
    currentElement,  \* Element | null                     (line 38)
    startOffset,     \* Point                              (line 39)
    cursorPos,       \* Point | null                       (line 40)
    profiles,            \* useState<PenProfile[]>([...])  (profile revision, line 39)
    activeProfileIndex,  \* useState(0)                    (profile revision, line 46)
    showSettings,        \* useState(false)                (profile revision, line 47)
    last,            \* observer: the last event and a summary of the state it ran in
    script           \* observer: position in a scripted run (constant under Spec)

progVars == <<elements, history, historyIndex, tool, color, lineWidth,
              action, selectedId, currentElement, startOffset, cursorPos>>
\* The style state of the profile revision of the component
\* (src/unnamed/part_001), which keeps five (color, lineWidth) profiles in
\* place of color and lineWidth. The handlers of Whiteboard.tsx leave it alone.
profileVars == <<profiles, activeProfileIndex, showSettings>>
vars == <<elements, history, historyIndex, tool, color, lineWidth,
          action, selectedId, currentElement, startOffset, cursorPos,
          profiles, activeProfileIndex, showSettings, last, script>>

---------------------------------------------------------------------------
(* Values *)

\* JavaScript null, for the string-valued selectedId and for the object-valued
\* currentElement and cursorPos.
Null == "null"
NullObj == [null |-> TRUE]

\* An Element is a record; its optional fields (width?, height?, radius?) are
\* fields the record may lack.
Has(el, f) == f \in DOMAIN el
\* { ...el, f1: v1, ... }: the fields of `fields` set or added.
With(el, fields) == fields @@ el

\* type Tool
Tool == {"select", "pen", "eraser", "rectangle", "circle", "line"}

Point(px, py) == [x |-> px, y |-> py]

\* interface PenProfile (profile revision)
PenProfile(c, w) == [color |-> c, lineWidth |-> w]

---------------------------------------------------------------------------
(* Bounds of the model *)

\* History entries kept: a commit is taken only while the result fits.
MaxHist == 2
\* Elements in the scene: a draw is committed only while the result fits.
MaxElems == 2
\* Points of a freehand path: a point is appended only while the result fits.
MaxPts == 1

---------------------------------------------------------------------------
(* Observer *)

\* `last` names the last event handled, with a summary of the state its
\* handler ran in.
Obs(op) == [op |-> op,
            historyIndex |-> historyIndex,
            historyLen |-> Len(history),
            selected |-> selectedId # Null,
            action |-> action]
Observe(op) == last' = Obs(op)

---------------------------------------------------------------------------
(* History management *)

\* Mutant of saveToHistory: the redo entries are not sliced away.
saveToHistory_NoTruncate(newElements) ==
    LET newHistory == Append(history, newElements)
    IN  /\ history' = newHistory
        /\ historyIndex' = Len(newHistory) - 1

\* history.slice(0, historyIndex + 1); push([...newElements]); setHistory;
\* setHistoryIndex(newHistory.length - 1)
saveToHistory(newElements) ==
    LET newHistory == Append(SubSeq(history, 1, historyIndex + 1), newElements)
    IN  /\ history' = newHistory
        /\ historyIndex' = Len(newHistory) - 1

\* The state undo and redo read and set.
HistoryState ==
    [elements |-> elements, history |-> history,
     historyIndex |-> historyIndex, selectedId |-> selectedId]

\* Mutant of undoOn: setSelectedId(null) is left out.
undoOn_KeepsSelection(st) ==
    IF st.historyIndex > 0
    THEN LET prevIndex == st.historyIndex - 1
         IN  [st EXCEPT !.historyIndex = prevIndex,
                        !.elements = st.history[prevIndex + 1]]
    ELSE IF st.historyIndex = 0
    THEN [st EXCEPT !.historyIndex = -1,
                    !.elements = <<>>]
    ELSE st

\* The state after undo() runs on st.
undoOn(st) ==
    IF st.historyIndex > 0
    THEN LET prevIndex == st.historyIndex - 1
         IN  [st EXCEPT !.historyIndex = prevIndex,
                        !.elements = st.history[prevIndex + 1],
                        !.selectedId = Null]
    ELSE IF st.historyIndex = 0
    THEN [st EXCEPT !.historyIndex = -1,
                    !.elements = <<>>,
                    !.selectedId = Null]
    ELSE st

\* Mutant of redoOn: the selection is cleared as undo does, outside the guard.
redoOn_ClearsSelection(st) ==
    IF st.historyIndex < Len(st.history) - 1
    THEN LET nextIndex == st.historyIndex + 1
         IN  [st EXCEPT !.historyIndex = nextIndex,
                        !.elements = st.history[nextIndex + 1],
                        !.selectedId = Null]
    ELSE [st EXCEPT !.selectedId = Null]

\* Mutant of redoOn: restores the entry at the old cursor, not at nextIndex.
redoOn_StaleEntry(st) ==
    IF st.historyIndex < Len(st.history) - 1
    THEN LET nextIndex == st.historyIndex + 1
         IN  [st EXCEPT !.historyIndex = nextIndex,
                        !.elements = IF st.historyIndex >= 0
                                     THEN st.history[st.historyIndex + 1]
                                     ELSE <<>>]
    ELSE st

\* The state after redo() runs on st.
redoOn(st) ==
    IF st.historyIndex < Len(st.history) - 1
    THEN LET nextIndex == st.historyIndex + 1
         IN  [st EXCEPT !.historyIndex = nextIndex,
                        !.elements = st.history[nextIndex + 1]]
    ELSE st

undo ==
    LET r == undoOn(HistoryState)
    IN  /\ historyIndex' = r.historyIndex
        /\ elements' = r.elements
        /\ selectedId' = r.selectedId

redo ==
    LET r == redoOn(HistoryState)
    IN  /\ historyIndex' = r.historyIndex
        /\ elements' = r.elements
        /\ selectedId' = r.selectedId

---------------------------------------------------------------------------
Init ==
    /\ elements = <<>>
    /\ history = <<>>
    /\ historyIndex = -1
    /\ tool = "pen"
    /\ color = "#2563eb"
    /\ lineWidth = 5
    /\ action = "none"
    /\ selectedId = Null
    /\ currentElement = NullObj
    /\ startOffset = Point(0, 0)
    /\ cursorPos = NullObj
    /\ last = [op |-> "init", historyIndex |-> -1, historyLen |-> 0,
               selected |-> FALSE, action |-> "none"]
    /\ script = [mode |-> "free"]
    /\ profiles = <<PenProfile("#000000", 2), PenProfile("#2563eb", 5),
                    PenProfile("#dc2626", 10), PenProfile("#16a34a", 15),
                    PenProfile("#ca8a04", 25)>>
    /\ activeProfileIndex = 0
    /\ showSettings = FALSE


---------------------------------------------------------------------------
(* Interaction *)

Abs(n) == IF n < 0 THEN -n ELSE n
Min(a, b) == IF a < b THEN a ELSE b
Sq(n) == n * n

\* el.f || d for an optional number: undefined and 0 are falsy.
OrElse(el, f, d) == IF Has(el, f) /\ el[f] # 0 THEN el[f] ELSE d

\* Math.sqrt(n), kept exactly as the radicand n.
Sqrt(n) == [sqrt |-> n]
\* The radicand of (el.radius || 0).
RadicandOrZero(el) == IF Has(el, "radius") THEN el.radius.sqrt ELSE 0

\* Math.sqrt(d2) <= Math.sqrt(r2) + tol, decided in integers:
\* d2 <= r2 + 2*tol*sqrt(r2) + tol^2.
\* The comparison with < in place of <=.
SqrtLeqSqrtPlus_Strict(d2, r2, tol) ==
    LET lhs == d2 - r2 - Sq(tol)
    IN  lhs < 0 \/ Sq(lhs) < 4 * Sq(tol) * r2

SqrtLeqSqrtPlus(d2, r2, tol) ==
    LET lhs == d2 - r2 - Sq(tol)
    IN  lhs <= 0 \/ Sq(lhs) <= 4 * Sq(tol) * r2

\* A hit test on the bare bounding box, borders excluded, with no tolerance
\* and no fallback size.
isWithinElement_BareBox(x, y, el) ==
    LET w == Abs(OrElse(el, "width", 0))
        h == Abs(OrElse(el, "height", 0))
        minX == Min(el.x, el.x + OrElse(el, "width", 0))
        minY == Min(el.y, el.y + OrElse(el, "height", 0))
    IN  IF el.type = "circle"
        THEN SqrtLeqSqrtPlus(Sq(x - el.x) + Sq(y - el.y), RadicandOrZero(el), 10)
        ELSE IF el.type = "pen" \/ el.type = "eraser"
        THEN \E i \in 1..Len(el.points) :
                 Sq(x - el.points[i].x) + Sq(y - el.points[i].y) < Sq(15)
        ELSE /\ x > minX /\ x < minX + w
             /\ y > minY /\ y < minY + h

\* A hit test whose freehand branch counts a point at distance exactly 15.
isWithinElement_FreehandInclusive(x, y, el) ==
    LET w == Abs(OrElse(el, "width", 20))
        h == Abs(OrElse(el, "height", 20))
        minX == Min(el.x, el.x + OrElse(el, "width", 0))
        minY == Min(el.y, el.y + OrElse(el, "height", 0))
    IN  IF el.type = "circle"
        THEN SqrtLeqSqrtPlus(Sq(x - el.x) + Sq(y - el.y), RadicandOrZero(el), 10)
        ELSE IF el.type = "pen" \/ el.type = "eraser"
        THEN \E i \in 1..Len(el.points) :
                 Sq(x - el.points[i].x) + Sq(y - el.points[i].y) <= Sq(15)
        ELSE /\ x >= minX - 10 /\ x <= minX + w + 10
             /\ y >= minY - 10 /\ y <= minY + h + 10

isWithinElement(x, y, el) ==
    LET w == Abs(OrElse(el, "width", 20))
        h == Abs(OrElse(el, "height", 20))
        minX == Min(el.x, el.x + OrElse(el, "width", 0))
        minY == Min(el.y, el.y + OrElse(el, "height", 0))
    IN  IF el.type = "circle"
        THEN SqrtLeqSqrtPlus(Sq(x - el.x) + Sq(y - el.y), RadicandOrZero(el), 10)
        ELSE IF el.type = "pen" \/ el.type = "eraser"
        THEN \E i \in 1..Len(el.points) :
                 Sq(x - el.points[i].x) + Sq(y - el.points[i].y) < Sq(15)
        ELSE /\ x >= minX - 10 /\ x <= minX + w + 10
             /\ y >= minY - 10 /\ y <= minY + h + 10

\* Indices of the elements that pass the hit test at p.
Hits(p) == {i \in 1..Len(elements) : isWithinElement(p.x, p.y, elements[i])}

\* [...elements].reverse().find(...): the index of the last element in scene
\* order that passes the hit test; 0 when none does.
\* A search from the bottom of the scene: the first element in scene order
\* that passes the hit test.
FindTopmost_Bottommost(p) ==
    IF Hits(p) = {} THEN 0
    ELSE CHOOSE i \in Hits(p) : \A j \in Hits(p) : i <= j

FindTopmost(p) ==
    IF Hits(p) = {} THEN 0
    ELSE CHOOSE i \in Hits(p) : \A j \in Hits(p) : j <= i

\* A new element that always has the initial colour.
NewElement_InitialColor(now, p) ==
    [id |-> ToString(now), type |-> tool, x |-> p.x, y |-> p.y,
     color |-> "#2563eb", lineWidth |-> lineWidth, points |-> <<p>>]

\* const newEl = { id, type: tool, x, y, color, lineWidth, points: [{x, y}] }
\* with id = Date.now().toString()
NewElement(now, p) ==
    [id |-> ToString(now), type |-> tool, x |-> p.x, y |-> p.y,
     color |-> color, lineWidth |-> lineWidth, points |-> <<p>>]

handleMouseDown(p, now) ==
    /\ IF tool = "select"
       THEN LET i == FindTopmost(p)
            IN  IF i # 0
                THEN /\ selectedId' = elements[i].id
                     /\ startOffset' = Point(p.x - elements[i].x, p.y - elements[i].y)
                     /\ action' = "moving"
                     /\ UNCHANGED currentElement
                ELSE /\ selectedId' = Null
                     /\ action' = "none"
                     /\ UNCHANGED <<startOffset, currentElement>>
       ELSE /\ currentElement' = NewElement(now, p)
            /\ action' = "drawing"
            /\ UNCHANGED <<selectedId, startOffset>>
    /\ UNCHANGED <<elements, history, historyIndex, tool, color, lineWidth, cursorPos>>
    /\ UNCHANGED profileVars
    /\ Observe("mouseDown")

\* The drawing branch of handleMouseMove: the in-progress element updated
\* according to the CURRENT tool.
UpdatedElement(p) ==
    IF tool \in {"pen", "eraser"}
    THEN [currentElement EXCEPT !.points = Append(@, p)]
    ELSE IF tool = "rectangle" \/ tool = "line"
    THEN With(currentElement, [width |-> p.x - currentElement.x,
                               height |-> p.y - currentElement.y])
    ELSE IF tool = "circle"
    THEN With(currentElement,
              [radius |-> Sqrt(Sq(p.x - currentElement.x) + Sq(p.y - currentElement.y))])
    ELSE currentElement

\* A move that puts the element's origin at the pointer.
MovedElement_IgnoresOffset(el, p) ==
    IF el.id = selectedId
    THEN LET dx == p.x - el.x
             dy == p.y - el.y
         IN  [el EXCEPT !.x = p.x,
                        !.y = p.y,
                        !.points = [k \in 1..Len(el.points) |->
                                        Point(el.points[k].x + dx, el.points[k].y + dy)]]
    ELSE el

\* A move that leaves the path where it was.
MovedElement_PathStays(el, p) ==
    IF el.id = selectedId
    THEN [el EXCEPT !.x = p.x - startOffset.x,
                    !.y = p.y - startOffset.y]
    ELSE el

\* The moving branch of handleMouseMove on one element.
MovedElement(el, p) ==
    IF el.id = selectedId
    THEN LET dx == p.x - startOffset.x - el.x
             dy == p.y - startOffset.y - el.y
         IN  [el EXCEPT !.x = p.x - startOffset.x,
                        !.y = p.y - startOffset.y,
                        !.points = [k \in 1..Len(el.points) |->
                                        Point(el.points[k].x + dx, el.points[k].y + dy)]]
    ELSE el

\* A pointer-move that also takes a snapshot of the scene it has just moved.
handleMouseMove_CommitsEachMove(p) ==
    /\ cursorPos' = p
    /\ IF action = "drawing" /\ currentElement # NullObj
       THEN /\ currentElement' = UpdatedElement(p)
            /\ UNCHANGED <<elements, history, historyIndex>>
       ELSE IF action = "moving" /\ selectedId # Null
       THEN /\ elements' = [k \in 1..Len(elements) |-> MovedElement(elements[k], p)]
            /\ saveToHistory([k \in 1..Len(elements) |-> MovedElement(elements[k], p)])
            /\ UNCHANGED currentElement
       ELSE UNCHANGED <<elements, history, historyIndex, currentElement>>
    /\ UNCHANGED <<tool, color, lineWidth, action, selectedId, startOffset>>
    /\ UNCHANGED profileVars
    /\ Observe("mouseMove")

\* A pointer-move that brings the dragged elements to the front of the scene.
handleMouseMove_BringsToFront(p) ==
    /\ cursorPos' = p
    /\ IF action = "drawing" /\ currentElement # NullObj
       THEN /\ currentElement' = UpdatedElement(p)
            /\ UNCHANGED elements
       ELSE IF action = "moving" /\ selectedId # Null
       THEN LET moved == [k \in 1..Len(elements) |-> MovedElement(elements[k], p)]
                Dragged(el) == el.id = selectedId
                Others(el) == el.id # selectedId
            IN  /\ elements' = SelectSeq(moved, Others) \o SelectSeq(moved, Dragged)
                /\ UNCHANGED currentElement
       ELSE UNCHANGED <<elements, currentElement>>
    /\ UNCHANGED <<history, historyIndex, tool, color, lineWidth, action,
                   selectedId, startOffset>>
    /\ UNCHANGED profileVars
    /\ Observe("mouseMove")

handleMouseMove(p) ==
    /\ cursorPos' = p
    /\ IF action = "drawing" /\ currentElement # NullObj
       THEN /\ currentElement' = UpdatedElement(p)
            /\ UNCHANGED elements
       ELSE IF action = "moving" /\ selectedId # Null
       THEN /\ elements' = [k \in 1..Len(elements) |-> MovedElement(elements[k], p)]
            /\ UNCHANGED currentElement
       ELSE UNCHANGED <<elements, currentElement>>
    /\ UNCHANGED <<history, historyIndex, tool, color, lineWidth, action,
                   selectedId, startOffset>>
    /\ UNCHANGED profileVars
    /\ Observe("mouseMove")

\* A pointer-up that takes no snapshot at the end of a move.
handleMouseUp_MoveNotSaved ==
    /\ IF action = "drawing" /\ currentElement # NullObj
       THEN LET newElements == Append(elements, currentElement)
            IN  /\ elements' = newElements
                /\ saveToHistory(newElements)
                /\ currentElement' = NullObj
       ELSE UNCHANGED <<elements, history, historyIndex, currentElement>>
    /\ action' = "none"
    /\ UNCHANGED <<tool, color, lineWidth, selectedId, startOffset, cursorPos>>
    /\ UNCHANGED profileVars
    /\ Observe("mouseUp")

\* A pointer-up whose eraser stroke takes away the elements its first point
\* touches instead of joining the scene.
handleMouseUp_EraserRemoves ==
    /\ IF action = "drawing" /\ currentElement # NullObj
       THEN LET Kept(el) == ~isWithinElement(currentElement.x, currentElement.y, el)
                newElements == IF currentElement.type = "eraser"
                               THEN SelectSeq(elements, Kept)
                               ELSE Append(elements, currentElement)
            IN  /\ elements' = newElements
                /\ saveToHistory(newElements)
                /\ currentElement' = NullObj
       ELSE IF action = "moving"
       THEN /\ saveToHistory(elements)
            /\ UNCHANGED <<elements, currentElement>>
       ELSE UNCHANGED <<elements, history, historyIndex, currentElement>>
    /\ action' = "none"
    /\ UNCHANGED <<tool, color, lineWidth, selectedId, startOffset, cursorPos>>
    /\ UNCHANGED profileVars
    /\ Observe("mouseUp")

handleMouseUp ==
    /\ IF action = "drawing" /\ currentElement # NullObj
       THEN LET newElements == Append(elements, currentElement)
            IN  /\ elements' = newElements
                /\ saveToHistory(newElements)
                /\ currentElement' = NullObj
       ELSE IF action = "moving"
       THEN /\ saveToHistory(elements)
            /\ UNCHANGED <<elements, currentElement>>
       ELSE UNCHANGED <<elements, history, historyIndex, currentElement>>
    /\ action' = "none"
    /\ UNCHANGED <<tool, color, lineWidth, selectedId, startOffset, cursorPos>>
    /\ UNCHANGED profileVars
    /\ Observe("mouseUp")

\* The pointer leaves the canvas wrapper. The wrapper binds onMouseDown,
\* onMouseMove, onMouseUp and the three touch events and nothing else: no
\* handler runs and no state changes.
handleMouseLeave ==
    /\ UNCHANGED progVars
    /\ UNCHANGED profileVars
    /\ Observe("mouseLeave")

clearCanvas ==
    /\ elements' = <<>>
    /\ saveToHistory(<<>>)
    /\ selectedId' = Null
    /\ UNCHANGED <<tool, color, lineWidth, action, currentElement, startOffset, cursorPos>>
    /\ UNCHANGED profileVars
    /\ Observe("clear")

---------------------------------------------------------------------------
(* Shortcuts *)

\* elements.filter(el => el.id !== selectedId)
WithoutSelected ==
    LET Keep(el) == el.id # selectedId
    IN  SelectSeq(elements, Keep)

\* e.key.toLowerCase() on the key names exercised.
ToLowerCase(k) ==
    CASE k = "Z" -> "z"
      [] k = "Y" -> "y"
      [] k = "Q" -> "q"
      [] k = "Backspace" -> "backspace"
      [] k = "Delete" -> "delete"
      [] OTHER -> k

\* A KeyboardEvent, as far as handleKeyDown reads it.
KeyEvent(k, ctrl, meta, shift) ==
    [key |-> k, ctrlKey |-> ctrl, metaKey |-> meta, shiftKey |-> shift]

ToolOfKey(key) ==
    CASE key = "q" -> "select"
      [] key = "w" -> "pen"
      [] key = "e" -> "eraser"
      [] key = "a" -> "rectangle"
      [] key = "s" -> "circle"
      [] key = "d" -> "line"
      [] OTHER -> Null

\* What a key event does, as the observer records it.
KeyOp(e) ==
    LET isCtrl == e.ctrlKey \/ e.metaKey
        key == ToLowerCase(e.key)
    IN  IF isCtrl /\ key = "z" THEN (IF e.shiftKey THEN "redo" ELSE "undo")
        ELSE IF isCtrl /\ key = "y" THEN "redo"
        ELSE IF ~isCtrl /\ ToolOfKey(key) # Null THEN "setTool"
        ELSE IF ~isCtrl /\ key \in {"backspace", "delete"} THEN "delete"
        ELSE "otherKey"

\* A handler whose tool and delete bindings do not look at ctrl and meta.
handleKeyDown_IgnoresModifiers(e) ==
    LET isCtrl == e.ctrlKey \/ e.metaKey
        key == ToLowerCase(e.key)
    IN
    /\ IF isCtrl /\ key = "z"
       THEN /\ IF e.shiftKey THEN redo ELSE undo
            /\ UNCHANGED <<history, tool>>
       ELSE IF isCtrl /\ key = "y"
       THEN /\ redo
            /\ UNCHANGED <<history, tool>>
       ELSE IF ToolOfKey(key) # Null
            THEN /\ tool' = ToolOfKey(key)
                 /\ UNCHANGED <<elements, history, historyIndex, selectedId>>
            ELSE IF key \in {"backspace", "delete"} /\ selectedId # Null
            THEN LET newElements == WithoutSelected
                 IN  /\ elements' = newElements
                     /\ saveToHistory(newElements)
                     /\ selectedId' = Null
                     /\ UNCHANGED tool
            ELSE UNCHANGED <<elements, history, historyIndex, selectedId, tool>>
    /\ UNCHANGED <<color, lineWidth, action, currentElement, startOffset, cursorPos>>
    /\ UNCHANGED profileVars
    /\ Observe(KeyOp(e))

\* A delete that does not look whether anything is selected.
handleKeyDown_DeleteUnguarded(e) ==
    LET isCtrl == e.ctrlKey \/ e.metaKey
        key == ToLowerCase(e.key)
    IN
    /\ IF isCtrl /\ key = "z"
       THEN /\ IF e.shiftKey THEN redo ELSE undo
            /\ UNCHANGED <<history, tool>>
       ELSE IF isCtrl /\ key = "y"
       THEN /\ redo
            /\ UNCHANGED <<history, tool>>
       ELSE IF ~isCtrl
       THEN IF ToolOfKey(key) # Null
            THEN /\ tool' = ToolOfKey(key)
                 /\ UNCHANGED <<elements, history, historyIndex, selectedId>>
            ELSE IF key \in {"backspace", "delete"}
            THEN LET newElements == WithoutSelected
                 IN  /\ elements' = newElements
                     /\ saveToHistory(newElements)
                     /\ selectedId' = Null
                     /\ UNCHANGED tool
            ELSE UNCHANGED <<elements, history, historyIndex, selectedId, tool>>
       ELSE UNCHANGED <<elements, history, historyIndex, selectedId, tool>>
    /\ UNCHANGED <<color, lineWidth, action, currentElement, startOffset, cursorPos>>
    /\ UNCHANGED profileVars
    /\ Observe(KeyOp(e))

handleKeyDown(e) ==
    LET isCtrl == e.ctrlKey \/ e.metaKey
        key == ToLowerCase(e.key)
    IN
    /\ IF isCtrl /\ key = "z"
       THEN /\ IF e.shiftKey THEN redo ELSE undo
            /\ UNCHANGED <<history, tool>>
       ELSE IF isCtrl /\ key = "y"
       THEN /\ redo
            /\ UNCHANGED <<history, tool>>
       ELSE IF ~isCtrl
       THEN IF ToolOfKey(key) # Null
            THEN /\ tool' = ToolOfKey(key)
                 /\ UNCHANGED <<elements, history, historyIndex, selectedId>>
            ELSE IF key \in {"backspace", "delete"} /\ selectedId # Null
            THEN LET newElements == WithoutSelected
                 IN  /\ elements' = newElements
                     /\ saveToHistory(newElements)
                     /\ selectedId' = Null
                     /\ UNCHANGED tool
            ELSE UNCHANGED <<elements, history, historyIndex, selectedId, tool>>
       ELSE UNCHANGED <<elements, history, historyIndex, selectedId, tool>>
    /\ UNCHANGED <<color, lineWidth, action, currentElement, startOffset, cursorPos>>
    /\ UNCHANGED profileVars
    /\ Observe(KeyOp(e))

---------------------------------------------------------------------------
(* Toolbar *)

\* onClick={() => setTool(t)}
ToolButton(t) ==
    /\ tool' = t
    /\ UNCHANGED <<elements, history, historyIndex, color, lineWidth, action,
                   selectedId, currentElement, startOffset, cursorPos>>
    /\ UNCHANGED profileVars
    /\ Observe("setTool")

\* onClick={() => setColor(c)}
ColorSwatch(c) ==
    /\ color' = c
    /\ UNCHANGED <<elements, history, historyIndex, tool, lineWidth, action,
                   selectedId, currentElement, startOffset, cursorPos>>
    /\ UNCHANGED profileVars
    /\ Observe("setColor")

\* onChange={(e) => setLineWidth(Number(e.target.value))}
WidthSlider(w) ==
    /\ lineWidth' = w
    /\ UNCHANGED <<elements, history, historyIndex, tool, color, action,
                   selectedId, currentElement, startOffset, cursorPos>>
    /\ UNCHANGED profileVars
    /\ Observe("setLineWidth")

\* <button onClick={undo} disabled={historyIndex < 0}>
UndoButton ==
    /\ ~(historyIndex < 0)
    /\ undo
    /\ UNCHANGED <<history, tool, color, lineWidth, action, currentElement,
                   startOffset, cursorPos>>
    /\ UNCHANGED profileVars
    /\ Observe("undo")

\* <button onClick={redo} disabled={historyIndex >= history.length - 1}>
RedoButton ==
    /\ ~(historyIndex >= Len(history) - 1)
    /\ redo
    /\ UNCHANGED <<history, tool, color, lineWidth, action, currentElement,
                   startOffset, cursorPos>>
    /\ UNCHANGED profileVars
    /\ Observe("redo")

---------------------------------------------------------------------------
(* The events of the component, over the inputs and within the bounds a     *)
(* specification gives them.                                                *)

\* The event commits a scene through saveToHistory.
MouseUpCommits == (action = "drawing" /\ currentElement # NullObj) \/ action = "moving"
DeleteCommits(e) == KeyOp(e) = "delete" /\ selectedId # Null

\* Bound guards: the event's result fits.
CommitFits(maxHist) == historyIndex + 2 <= maxHist
PathFits(maxPts) ==
    (action = "drawing" /\ currentElement # NullObj /\ tool \in {"pen", "eraser"})
        => Len(currentElement.points) < maxPts
SceneFits(maxElems) ==
    (action = "drawing" /\ currentElement # NullObj) => Len(elements) < maxElems

MouseDown(P, T) == \E p \in P, now \in T : handleMouseDown(p, now)
MouseMove(P, maxPts) == \E p \in P : PathFits(maxPts) /\ handleMouseMove(p)
MouseUp(maxElems, maxHist) ==
    /\ SceneFits(maxElems)
    /\ MouseUpCommits => CommitFits(maxHist)
    /\ handleMouseUp
KeyDown(E, maxHist) ==
    \E e \in E : (DeleteCommits(e) => CommitFits(maxHist)) /\ handleKeyDown(e)
ClickTool(TS) == \E t \in TS : ToolButton(t)
ClickColor(CS) == \E c \in CS : ColorSwatch(c)
SlideWidth(WS) == \E w \in WS : WidthSlider(w)
ClickClear(maxHist) == CommitFits(maxHist) /\ clearCanvas

---------------------------------------------------------------------------
(* Spec: every event in any order, on a small world.                        *)

\* Pointer positions delivered by getCoordinates.
Coords == {Point(0, 0), Point(40, 30)}
\* Values of Date.now() at pointer-down (a wall clock: two reads may agree).
Times == {1, 2}
\* Colour swatches and slider positions exercised.
Colors == {"#2563eb"}
Widths == {5}
\* Toolbar tool buttons exercised.
ToolButtons == {"select", "pen"}
\* Key events exercised.
KeyEvents ==
    {KeyEvent("z", TRUE, FALSE, FALSE),       \* ctrl+z
     KeyEvent("z", FALSE, TRUE, FALSE),       \* meta+z
     KeyEvent("Z", TRUE, FALSE, TRUE),        \* ctrl+shift+z
     KeyEvent("y", TRUE, FALSE, FALSE),       \* ctrl+y
     KeyEvent("q", FALSE, FALSE, FALSE),
     KeyEvent("w", FALSE, FALSE, FALSE),
     KeyEvent("q", TRUE, FALSE, FALSE),       \* ctrl+q: not bound
     KeyEvent("Backspace", FALSE, FALSE, FALSE),
     KeyEvent("Delete", FALSE, FALSE, FALSE),
     KeyEvent("Delete", TRUE, FALSE, FALSE),  \* ctrl+delete: not bound
     KeyEvent("x", FALSE, FALSE, FALSE)}      \* any unbound key

Next ==
    \/ MouseDown(Coords, Times) /\ UNCHANGED script
    \/ MouseMove(Coords, MaxPts) /\ UNCHANGED script
    \/ MouseUp(MaxElems, MaxHist) /\ UNCHANGED script
    \/ KeyDown(KeyEvents, MaxHist) /\ UNCHANGED script
    \/ ClickTool(ToolButtons) /\ UNCHANGED script
    \/ ClickColor(Colors) /\ UNCHANGED script
    \/ SlideWidth(Widths) /\ UNCHANGED script
    \/ UndoButton /\ UNCHANGED script
    \/ RedoButton /\ UNCHANGED script
    \/ ClickClear(MaxHist) /\ UNCHANGED script

Spec == Init /\ [][Next]_vars

---------------------------------------------------------------------------
(* Steps, as the claims speak of them *)

\* The scene history[historyIndex] denotes.
SceneAtCursor == IF historyIndex >= 0 THEN history[historyIndex + 1] ELSE <<>>

\* The step just taken handled the event `op` (every handler records it).
StepIs(op) == last'.op = op

\* A step that calls saveToHistory: a pointer-up that ends a draw or a move, a
\* delete with an element selected, or a clear.
CommitStep ==
    \/ StepIs("mouseUp") /\ MouseUpCommits
    \/ StepIs("delete") /\ selectedId # Null
    \/ StepIs("clear")

\* A step that runs undo(): ctrl/meta+z without shift, or the Undo button.
UndoStep == StepIs("undo")

\* A step that runs redo(): ctrl/meta+shift+z, ctrl/meta+y, or the Redo button.
RedoStep == StepIs("redo")

---------------------------------------------------------------------------
(* SpecRoundTrip: from the initial state, N commits with no undo or redo    *)
(* in between, then N undos, then N redos.  script counts the commits (n),  *)
(* the undos (undone) and the redos (redone), and keeps the scene of the    *)
(* latest commit (final).                                                   *)

\* Key events of the editing phase: every key event but undo and redo.
EditKeyEvents == {e \in KeyEvents : KeyOp(e) \notin {"undo", "redo"}}
UndoKeyEvents == {e \in KeyEvents : KeyOp(e) = "undo"}
RedoKeyEvents == {e \in KeyEvents : KeyOp(e) = "redo"}

InitRoundTrip ==
    /\ Init!1 /\ Init!2 /\ Init!3 /\ Init!4 /\ Init!5 /\ Init!6
    /\ Init!7 /\ Init!8 /\ Init!9 /\ Init!10 /\ Init!11 /\ Init!12
    /\ Init!14 /\ Init!15 /\ Init!16
    /\ script = [mode |-> "roundtrip", phase |-> "edit", n |-> 0,
                 undone |-> 0, redone |-> 0, final |-> <<>>]

\* The editing phase records each commit.
RecordCommit ==
    script' = IF CommitStep
              THEN [script EXCEPT !.n = @ + 1, !.final = elements']
              ELSE script

RecordUndo ==
    script' = [script EXCEPT !.phase = "undo", !.undone = @ + 1]
RecordRedo ==
    script' = [script EXCEPT !.phase = "redo", !.redone = @ + 1]

Editing == script.phase = "edit"
Undoing ==
    /\ script.phase \in {"edit", "undo"}
    /\ script.n >= 1
    /\ script.undone < script.n
Redoing ==
    /\ script.phase \in {"undo", "redo"}
    /\ script.undone = script.n
    /\ script.redone < script.n

NextRoundTrip ==
    \/ Editing /\ MouseDown(Coords, Times) /\ RecordCommit
    \/ Editing /\ MouseMove(Coords, MaxPts) /\ RecordCommit
    \/ Editing /\ MouseUp(MaxElems, MaxHist) /\ RecordCommit
    \/ Editing /\ KeyDown(EditKeyEvents, MaxHist) /\ RecordCommit
    \/ Editing /\ ClickTool(ToolButtons) /\ RecordCommit
    \/ Editing /\ ClickClear(MaxHist) /\ RecordCommit
    \/ Undoing /\ KeyDown(UndoKeyEvents, MaxHist) /\ RecordUndo
    \/ Undoing /\ UndoButton /\ RecordUndo
    \/ Redoing /\ KeyDown(RedoKeyEvents, MaxHist) /\ RecordRedo
    \/ Redoing /\ RedoButton /\ RecordRedo

SpecRoundTrip == InitRoundTrip /\ [][NextRoundTrip]_vars

---------------------------------------------------------------------------
(* SpecDraw: pen strokes of several points, drawn and dragged, on a scene   *)
(* of one element.                                                          *)

DrawMaxHist == 2
DrawMaxElems == 1
DrawMaxPts == 2

DrawTimes == {1}
DrawKeyEvents ==
    {KeyEvent(k, FALSE, FALSE, FALSE) : k \in {"q", "w", "Delete"}}
        \cup {KeyEvent("z", TRUE, FALSE, FALSE), KeyEvent("y", TRUE, FALSE, FALSE)}

NextDraw ==
    \/ MouseDown(Coords, DrawTimes) /\ UNCHANGED script
    \/ MouseMove(Coords, DrawMaxPts) /\ UNCHANGED script
    \/ MouseUp(DrawMaxElems, DrawMaxHist) /\ UNCHANGED script
    \/ KeyDown(DrawKeyEvents, DrawMaxHist) /\ UNCHANGED script

SpecDraw == Init /\ [][NextDraw]_vars

---------------------------------------------------------------------------
(* SpecScenario: a rectangle is drawn from (10,10) to (110,60), grabbed at  *)
(* (60,35) with the select tool, dragged until the pointer is at (120,90),  *)
(* dropped, and the two commits are undone. The pointer may pass through    *)
(* other positions on its way; colour, width and clock vary.                *)

ScenStart == Point(10, 10)
ScenEnd == Point(110, 60)
ScenGrabAt == Point(60, 35)
ScenDropAt == Point(120, 90)
ScenVia == {Point(50, 20), Point(5, 80)}
ScenColors == {"#000000", "#dc2626"}
ScenWidths == {1, 40}
ScenUndoKeys == {KeyEvent("z", TRUE, FALSE, FALSE), KeyEvent("z", FALSE, TRUE, FALSE)}

InitScenario ==
    /\ Init!1 /\ Init!2 /\ Init!3 /\ Init!4 /\ Init!5 /\ Init!6
    /\ Init!7 /\ Init!8 /\ Init!9 /\ Init!10 /\ Init!11 /\ Init!12
    /\ Init!14 /\ Init!15 /\ Init!16
    /\ script = [mode |-> "scenario", pc |-> 0]

At(pc) == script.pc = pc
Goto(pc) == script' = [script EXCEPT !.pc = pc]

NextScenario ==
    \/ At(0) /\ ClickColor(ScenColors) /\ Goto(0)
    \/ At(0) /\ SlideWidth(ScenWidths) /\ Goto(0)
    \/ At(0) /\ ClickTool({"rectangle"}) /\ Goto(1)
    \/ At(0) /\ KeyDown({KeyEvent("a", FALSE, FALSE, FALSE)}, MaxHist) /\ Goto(1)
    \/ At(1) /\ MouseDown({ScenStart}, Times) /\ Goto(2)
    \/ At(2) /\ MouseMove(ScenVia, MaxPts) /\ Goto(2)
    \/ At(2) /\ MouseMove({ScenEnd}, MaxPts) /\ Goto(3)
    \/ At(3) /\ MouseUp(MaxElems, MaxHist) /\ Goto(4)
    \/ At(4) /\ ClickTool({"select"}) /\ Goto(5)
    \/ At(4) /\ KeyDown({KeyEvent("q", FALSE, FALSE, FALSE)}, MaxHist) /\ Goto(5)
    \/ At(5) /\ MouseDown({ScenGrabAt}, Times) /\ Goto(6)
    \/ At(6) /\ MouseMove(ScenVia, MaxPts) /\ Goto(6)
    \/ At(6) /\ MouseMove({ScenDropAt}, MaxPts) /\ Goto(7)
    \/ At(7) /\ MouseUp(MaxElems, MaxHist) /\ Goto(8)
    \/ At(8) /\ KeyDown(ScenUndoKeys, MaxHist) /\ Goto(9)
    \/ At(8) /\ UndoButton /\ Goto(9)
    \/ At(9) /\ KeyDown(ScenUndoKeys, MaxHist) /\ Goto(10)
    \/ At(9) /\ UndoButton /\ Goto(10)

SpecScenario == InitScenario /\ [][NextScenario]_vars

---------------------------------------------------------------------------
(* SpecDelete: strokes are put down, selected, deleted, undone and redone,  *)
(* with a history long enough to delete from a scene of two elements.       *)

DelMaxHist == 3
DelMaxElems == 2

DelKeyEvents ==
    {KeyEvent(k, FALSE, FALSE, FALSE) : k \in {"q", "w", "Delete", "Backspace"}}
        \cup {KeyEvent("z", TRUE, FALSE, FALSE), KeyEvent("y", TRUE, FALSE, FALSE)}

NextDelete ==
    \/ MouseDown(Coords, Times) /\ UNCHANGED script
    \/ MouseUp(DelMaxElems, DelMaxHist) /\ UNCHANGED script
    \/ KeyDown(DelKeyEvents, DelMaxHist) /\ UNCHANGED script

SpecDelete == Init /\ [][NextDelete]_vars

---------------------------------------------------------------------------
(* SpecHit: one element is drawn with any drawing tool (the rectangle tool  *)
(* may be taken in mid-gesture), then the select tool is taken and the pointer is        *)
(* pressed at any position of a grid around the element.                    *)

HitMaxHist == 1
HitMaxElems == 1
HitMaxPts == 2

\* Positions of the pointer while drawing.
HitCoords == {Point(0, 0), Point(3, 0), Point(3, 4)}
\* Positions of the select-tool pointer-down.
Probes == {Point(px, py) : px \in -13..35, py \in -13..35}
\* w, e, a, s, d: the drawing tools.
HitDrawKeys == {KeyEvent(k, FALSE, FALSE, FALSE) : k \in {"w", "e", "a", "s", "d"}}
HitSelectKey == {KeyEvent("q", FALSE, FALSE, FALSE)}
\* The tool shortcut pressed in mid-gesture: a stroke gets width and height.
HitMidGestureKey == {KeyEvent("a", FALSE, FALSE, FALSE)}

InitHit ==
    /\ Init!1 /\ Init!2 /\ Init!3 /\ Init!4 /\ Init!5 /\ Init!6
    /\ Init!7 /\ Init!8 /\ Init!9 /\ Init!10 /\ Init!11 /\ Init!12
    /\ Init!14 /\ Init!15 /\ Init!16
    /\ script = [mode |-> "hit", phase |-> "draw", probe |-> NullObj]

HitDrawing == script.phase = "draw" /\ UNCHANGED script
HitProbing(p) == script' = [script EXCEPT !.phase = "probe", !.probe = p]
\* One pointer-down per run is observed.
HitNotYetProbed == script.phase = "probe" /\ script.probe = NullObj

NextHit ==
    \/ HitDrawing /\ action = "none" /\ KeyDown(HitDrawKeys, HitMaxHist)
    \/ HitDrawing /\ action = "drawing" /\ KeyDown(HitMidGestureKey, HitMaxHist)
    \/ HitDrawing /\ Len(elements) < HitMaxElems /\ MouseDown(HitCoords, DrawTimes)
    \/ HitDrawing /\ MouseMove(HitCoords, HitMaxPts)
    \/ HitDrawing /\ MouseUp(HitMaxElems, HitMaxHist)
    \/ /\ script.phase = "draw" /\ action = "none" /\ Len(elements) = HitMaxElems
       /\ KeyDown(HitSelectKey, HitMaxHist)
       /\ HitProbing(NullObj)
    \/ /\ HitNotYetProbed
       /\ \E p \in Probes : MouseDown({p}, DrawTimes) /\ HitProbing(p)

SpecHit == InitHit /\ [][NextHit]_vars

\* The select-tool pointer-down at script.probe has just been handled on the
\* scene's one element.
Probed == script.phase = "probe" /\ script.probe # NullObj

---------------------------------------------------------------------------
(* SpecStack: two elements, strokes or rectangles, are drawn one over the   *)
(* other or apart, then the select tool is taken and the pointer is pressed *)
(* on them, between them or away from both.                                 *)

StackDrawKeys == {KeyEvent(k, FALSE, FALSE, FALSE) : k \in {"w", "a"}}
StackProbes == Coords \cup {Point(20, 15), Point(100, 100)}

NextStack ==
    \/ HitDrawing /\ action = "none" /\ KeyDown(StackDrawKeys, MaxHist)
    \/ HitDrawing /\ Len(elements) < MaxElems /\ MouseDown(Coords, Times)
    \/ HitDrawing /\ MouseMove(Coords, MaxPts)
    \/ HitDrawing /\ MouseUp(MaxElems, MaxHist)
    \/ /\ script.phase = "draw" /\ action = "none" /\ Len(elements) = MaxElems
       /\ KeyDown(HitSelectKey, MaxHist)
       /\ HitProbing(NullObj)
    \/ /\ HitNotYetProbed
       /\ \E p \in StackProbes : MouseDown({p}, Times) /\ HitProbing(p)

SpecStack == InitHit /\ [][NextStack]_vars

---------------------------------------------------------------------------
(* SpecDrag: one element is drawn as in SpecHit, grabbed with the select    *)
(* tool, dragged through a few positions and dropped.                       *)

DragMaxHist == 2

\* Positions of the grabbing pointer-down and of the pointer during the drag.
DragGrabs == {Point(0, 0), Point(3, 4), Point(5, 2)}
DragCoords == {Point(5, 2), Point(-7, 20), Point(3, 4)}

InitDrag ==
    /\ Init!1 /\ Init!2 /\ Init!3 /\ Init!4 /\ Init!5 /\ Init!6
    /\ Init!7 /\ Init!8 /\ Init!9 /\ Init!10 /\ Init!11 /\ Init!12
    /\ Init!14 /\ Init!15 /\ Init!16
    /\ script = [mode |-> "drag", phase |-> "draw", probe |-> NullObj,
                 scene |-> <<>>, grabbed |-> 0, moved |-> FALSE]

\* The drag in progress: the pointer-down has hit the element.
Dragging == script.phase = "probe" /\ script.probe # NullObj /\ action = "moving"

NextDrag ==
    \/ HitDrawing /\ action = "none" /\ KeyDown(HitDrawKeys, DragMaxHist)
    \/ HitDrawing /\ action = "drawing" /\ KeyDown(HitMidGestureKey, DragMaxHist)
    \/ HitDrawing /\ Len(elements) < HitMaxElems /\ MouseDown(HitCoords, DrawTimes)
    \/ HitDrawing /\ MouseMove(HitCoords, HitMaxPts)
    \/ HitDrawing /\ MouseUp(HitMaxElems, DragMaxHist)
    \/ /\ script.phase = "draw" /\ action = "none" /\ Len(elements) = HitMaxElems
       /\ KeyDown(HitSelectKey, DragMaxHist)
       /\ HitProbing(NullObj)
    \/ /\ HitNotYetProbed
       /\ \E p \in DragGrabs :
              /\ MouseDown({p}, DrawTimes)
              /\ script' = [script EXCEPT !.probe = p, !.scene = elements,
                                           !.grabbed = FindTopmost(p)]
    \/ /\ Dragging
       /\ MouseMove(DragCoords, HitMaxPts)
       /\ script' = [script EXCEPT !.moved = TRUE]
    \/ /\ Dragging
       /\ MouseUp(HitMaxElems, DragMaxHist)
       /\ UNCHANGED script

SpecDrag == InitDrag /\ [][NextDrag]_vars

---------------------------------------------------------------------------
(* SpecKeys: strokes are drawn, selected and dragged on a scene of one      *)
(* element while keys are pressed with and without ctrl, meta and shift;    *)
(* the key event of each key step is kept for the claims to read.           *)

KeysMaxHist == 2
KeysMaxElems == 1

\* KeyEvents, and the bound keys under the modifiers they are not bound with.
KeysKeyEvents ==
    KeyEvents \cup
    {KeyEvent("z", FALSE, FALSE, FALSE), KeyEvent("Z", FALSE, FALSE, TRUE),
     KeyEvent("y", FALSE, FALSE, FALSE), KeyEvent("y", TRUE, FALSE, TRUE),
     KeyEvent("z", TRUE, TRUE, TRUE), KeyEvent("w", FALSE, TRUE, FALSE),
     KeyEvent("Backspace", FALSE, TRUE, FALSE), KeyEvent("Q", FALSE, FALSE, TRUE)}

InitKeys ==
    /\ Init!1 /\ Init!2 /\ Init!3 /\ Init!4 /\ Init!5 /\ Init!6
    /\ Init!7 /\ Init!8 /\ Init!9 /\ Init!10 /\ Init!11 /\ Init!12
    /\ Init!14 /\ Init!15 /\ Init!16
    /\ script = [mode |-> "keys", key |-> NullObj]

NoKey == script' = [script EXCEPT !.key = NullObj]

NextKeys ==
    \/ MouseDown(Coords, DrawTimes) /\ NoKey
    \/ MouseMove(Coords, MaxPts) /\ NoKey
    \/ MouseUp(KeysMaxElems, KeysMaxHist) /\ NoKey
    \/ \E e \in KeysKeyEvents :
           /\ KeyDown({e}, KeysMaxHist)
           /\ script' = [script EXCEPT !.key = e]

SpecKeys == InitKeys /\ [][NextKeys]_vars

---------------------------------------------------------------------------
(* SpecErase: strokes are put down with the pen and the eraser on a scene   *)
(* of up to two elements, selected, dragged and undone.                     *)

EraseMaxHist == 2
EraseMaxElems == 2
EraseMaxPts == 2

\* The pen is the tool of the initial state; the keys take the eraser and
\* the select tool.
EraseKeys == {"q", "e"}
EraseKeyEvents ==
    {KeyEvent(k, FALSE, FALSE, FALSE) : k \in EraseKeys}
        \cup {KeyEvent("z", TRUE, FALSE, FALSE)}

\* Positions at which a stroke is put to the hit test.
EraseProbes == {Point(px, py) : px \in {-12, 0, 14, 25, 40, 52}, py \in {-9, 0, 25, 30, 39}}

NextErase ==
    \/ MouseDown(Coords, DrawTimes) /\ UNCHANGED script
    \/ MouseMove(Coords, EraseMaxPts) /\ UNCHANGED script
    \/ MouseUp(EraseMaxElems, EraseMaxHist) /\ UNCHANGED script
    \/ KeyDown(EraseKeyEvents, EraseMaxHist) /\ UNCHANGED script

SpecErase == Init /\ [][NextErase]_vars

---------------------------------------------------------------------------
(* The profile revision of the component (src/unnamed/part_001): the style  *)
(* of a new element comes from the active one of five profiles. Its         *)
(* history, hit test, pointer-move and pointer-up are those of              *)
(* Whiteboard.tsx, word for word.                                           *)

\* const activeProfile = profiles[activeProfileIndex]
activeProfile == profiles[activeProfileIndex + 1]

\* An update that is written into every profile.
updateActiveProfile_EveryProfile(update) ==
    profiles' = [i \in 1..Len(profiles) |-> update @@ profiles[i]]

\* setProfiles(prev => prev.map((p, i) =>
\*     i === activeProfileIndex ? { ...p, ...update } : p))
updateActiveProfile(update) ==
    profiles' = [i \in 1..Len(profiles) |->
                    IF i - 1 = activeProfileIndex
                    THEN update @@ profiles[i]
                    ELSE profiles[i]]

\* newEl of the profile revision: color and lineWidth of the active profile.
NewElementP(now, p) ==
    [id |-> ToString(now), type |-> tool, x |-> p.x, y |-> p.y,
     color |-> activeProfile.color, lineWidth |-> activeProfile.lineWidth,
     points |-> <<p>>]

handleMouseDownP(p, now) ==
    /\ showSettings' = FALSE
    /\ IF tool = "select"
       THEN LET i == FindTopmost(p)
            IN  IF i # 0
                THEN /\ selectedId' = elements[i].id
                     /\ startOffset' = Point(p.x - elements[i].x, p.y - elements[i].y)
                     /\ action' = "moving"
                     /\ UNCHANGED currentElement
                ELSE /\ selectedId' = Null
                     /\ action' = "none"
                     /\ UNCHANGED <<startOffset, currentElement>>
       ELSE /\ currentElement' = NewElementP(now, p)
            /\ action' = "drawing"
            /\ UNCHANGED <<selectedId, startOffset>>
    /\ UNCHANGED <<elements, history, historyIndex, tool, color, lineWidth, cursorPos,
                   profiles, activeProfileIndex>>
    /\ Observe("mouseDown")

\* e.key.match(/^[1-5]$/)
ProfileMatch(k) == k \in {"1", "2", "3", "4", "5"}
\* parseInt(e.key) on the keys that match
ParseInt(k) ==
    CASE k = "1" -> 1
      [] k = "2" -> 2
      [] k = "3" -> 3
      [] k = "4" -> 4
      [] k = "5" -> 5

\* What a key event does in the profile revision, as the observer records it.
KeyOpP(e) ==
    IF ~(e.ctrlKey \/ e.metaKey) /\ ProfileMatch(e.key) THEN "setProfile" ELSE KeyOp(e)

handleKeyDownP(e) ==
    LET isCtrl == e.ctrlKey \/ e.metaKey
        key == ToLowerCase(e.key)
    IN
    /\ IF isCtrl /\ key = "z"
       THEN /\ IF e.shiftKey THEN redo ELSE undo
            /\ UNCHANGED <<history, tool, activeProfileIndex>>
       ELSE IF isCtrl /\ key = "y"
       THEN /\ redo
            /\ UNCHANGED <<history, tool, activeProfileIndex>>
       ELSE IF ~isCtrl
       THEN IF ToolOfKey(key) # Null
            THEN /\ tool' = ToolOfKey(key)
                 /\ UNCHANGED <<elements, history, historyIndex, selectedId,
                                activeProfileIndex>>
            ELSE IF key \in {"backspace", "delete"} /\ selectedId # Null
            THEN LET newElements == WithoutSelected
                 IN  /\ elements' = newElements
                     /\ saveToHistory(newElements)
                     /\ selectedId' = Null
                     /\ UNCHANGED <<tool, activeProfileIndex>>
            ELSE IF ProfileMatch(e.key)
            THEN /\ activeProfileIndex' = ParseInt(e.key) - 1
                 /\ tool' = "pen"
                 /\ UNCHANGED <<elements, history, historyIndex, selectedId>>
            ELSE UNCHANGED <<elements, history, historyIndex, selectedId, tool,
                             activeProfileIndex>>
       ELSE UNCHANGED <<elements, history, historyIndex, selectedId, tool,
                        activeProfileIndex>>
    /\ UNCHANGED <<color, lineWidth, action, currentElement, startOffset, cursorPos,
                   profiles, showSettings>>
    /\ Observe(KeyOpP(e))

\* The profile dot: onClick={() => { if (activeProfileIndex === i)
\*     setShowSettings(!showSettings);
\*     else { setActiveProfileIndex(i); setShowSettings(false); setTool('pen'); } }}
ProfileButton(i) ==
    /\ IF activeProfileIndex = i
       THEN /\ showSettings' = ~showSettings
            /\ UNCHANGED <<activeProfileIndex, tool>>
       ELSE /\ activeProfileIndex' = i
            /\ showSettings' = FALSE
            /\ tool' = "pen"
    /\ UNCHANGED <<elements, history, historyIndex, color, lineWidth, action,
                   selectedId, currentElement, startOffset, cursorPos, profiles>>
    /\ Observe("clickProfile")

\* The popover of the active profile, rendered while showSettings holds:
\* a swatch or the custom colour input, onClick/onChange =>
\* updateActiveProfile({ color: c })
PopoverColor(c) ==
    /\ showSettings
    /\ updateActiveProfile([color |-> c])
    /\ UNCHANGED <<elements, history, historyIndex, tool, color, lineWidth, action,
                   selectedId, currentElement, startOffset, cursorPos,
                   activeProfileIndex, showSettings>>
    /\ Observe("setColor")

\* The popover's range input: updateActiveProfile({ lineWidth: Number(value) })
PopoverSlider(w) ==
    /\ showSettings
    /\ updateActiveProfile([lineWidth |-> w])
    /\ UNCHANGED <<elements, history, historyIndex, tool, color, lineWidth, action,
                   selectedId, currentElement, startOffset, cursorPos,
                   activeProfileIndex, showSettings>>
    /\ Observe("setLineWidth")

MouseDownP(P, T) == \E p \in P, now \in T : handleMouseDownP(p, now)
KeyDownP(E, maxHist) ==
    \E e \in E : (DeleteCommits(e) => CommitFits(maxHist)) /\ handleKeyDownP(e)
ClickProfile(IS) == \E i \in IS : ProfileButton(i)
ClickPopoverColor(CS) == \E c \in CS : PopoverColor(c)
SlidePopover(WS) == \E w \in WS : PopoverSlider(w)

---------------------------------------------------------------------------
(* SpecProfiles: the profile revision. Profiles are chosen by key and by    *)
(* button and edited in the popover while pen strokes and rectangles are    *)
(* drawn on a scene of one element.                                         *)

ProfMaxHist == 1
ProfMaxElems == 1

ProfCoords == {Point(0, 0)}
\* Profile keys (the first, the middle and the last) and a digit that is no
\* profile key.
ProfKeys == {"1", "3", "5", "6"}
ProfKeyEvents ==
    {KeyEvent(k, FALSE, FALSE, FALSE) : k \in ProfKeys}
        \cup {KeyEvent("3", TRUE, FALSE, FALSE)}
\* The profile dots exercised: the first and the last.
ProfButtons == {0, 4}
\* A swatch of the popover and a position of its slider.
ProfColors == {"#8b5cf6"}
ProfWidths == {40}

NextProfiles ==
    \/ MouseDownP(ProfCoords, DrawTimes) /\ UNCHANGED script
    \/ MouseMove(ProfCoords, MaxPts) /\ UNCHANGED script
    \/ MouseUp(ProfMaxElems, ProfMaxHist) /\ UNCHANGED script
    \/ KeyDownP(ProfKeyEvents, ProfMaxHist) /\ UNCHANGED script
    \/ ClickProfile(ProfButtons) /\ UNCHANGED script
    \/ ClickPopoverColor(ProfColors) /\ UNCHANGED script
    \/ SlidePopover(ProfWidths) /\ UNCHANGED script

SpecProfiles == Init /\ [][NextProfiles]_vars

---------------------------------------------------------------------------
(* SpecGesture: elements are drawn one after the other, each with any      *)
(* drawing tool, colour and width, chosen between the gestures. script      *)
(* follows the draw gesture in progress: `down` keeps its pointer-down      *)
(* (position, tool, style and scene at that moment), `moves` counts the     *)
(* pointer-moves since, and `done` holds right after its pointer-up.        *)

GestMaxHist == 2
GestMaxElems == 2
GestMaxMoves == 2

GestKeys == {"w", "e", "a", "s", "d"}
GestKeyEvents == {KeyEvent(k, FALSE, FALSE, FALSE) : k \in GestKeys}
GestColors == {"#dc2626"}
GestWidths == {40}

InitGesture ==
    /\ Init!1 /\ Init!2 /\ Init!3 /\ Init!4 /\ Init!5 /\ Init!6
    /\ Init!7 /\ Init!8 /\ Init!9 /\ Init!10 /\ Init!11 /\ Init!12
    /\ Init!14 /\ Init!15 /\ Init!16
    /\ script = [mode |-> "gesture", down |-> NullObj, moves |-> 0, done |-> FALSE]

InGesture == script.down # NullObj /\ ~script.done
NoGesture == script' = [script EXCEPT !.down = NullObj, !.moves = 0, !.done = FALSE]

\* Tool, colour and width are chosen between gestures, while another element
\* fits.
Choosing == action = "none" /\ Len(elements) < GestMaxElems

GestureDown ==
    \E p \in Coords :
        /\ Len(elements) < GestMaxElems
        /\ MouseDown({p}, DrawTimes)
        /\ script' = [script EXCEPT
                        !.down = IF tool = "select" THEN NullObj
                                 ELSE [p |-> p, tool |-> tool, color |-> color,
                                       lineWidth |-> lineWidth, scene |-> elements],
                        !.moves = 0,
                        !.done = FALSE]

GestureMove ==
    /\ InGesture => script.moves < GestMaxMoves
    /\ MouseMove(Coords, GestMaxMoves + 1)
    /\ script' = IF InGesture THEN [script EXCEPT !.moves = @ + 1]
                 ELSE [script EXCEPT !.down = NullObj, !.moves = 0, !.done = FALSE]

GestureUp ==
    /\ MouseUp(GestMaxElems, GestMaxHist)
    /\ script' = IF InGesture THEN [script EXCEPT !.done = TRUE]
                 ELSE [script EXCEPT !.down = NullObj, !.moves = 0, !.done = FALSE]

NextGesture ==
    \/ GestureDown
    \/ GestureMove
    \/ GestureUp
    \/ Choosing /\ KeyDown(GestKeyEvents, GestMaxHist) /\ NoGesture
    \/ Choosing /\ ClickColor(GestColors) /\ NoGesture
    \/ Choosing /\ SlideWidth(GestWidths) /\ NoGesture

SpecGesture == InitGesture /\ [][NextGesture]_vars

---------------------------------------------------------------------------
(* SpecSwitch: one element is drawn while tool keys are pressed at any      *)
(* moment, between gestures and between the pointer-down and the pointer-up *)
(* of one gesture.                                                          *)

SwitchMaxHist == 1
SwitchMaxElems == 1
SwitchMaxPts == 3

\* The pen and the rectangle tool.
SwitchKeys == {"w", "a"}
SwitchKeyEvents == {KeyEvent(k, FALSE, FALSE, FALSE) : k \in SwitchKeys}

NextSwitch ==
    \/ MouseDown(Coords, DrawTimes) /\ UNCHANGED script
    \/ MouseMove(Coords, SwitchMaxPts) /\ UNCHANGED script
    \/ MouseUp(SwitchMaxElems, SwitchMaxHist) /\ UNCHANGED script
    \/ KeyDown(SwitchKeyEvents, SwitchMaxHist) /\ UNCHANGED script

SpecSwitch == Init /\ [][NextSwitch]_vars

---------------------------------------------------------------------------
(* SpecLeave: strokes are drawn, selected and dragged on a scene of one     *)
(* element, and the pointer may leave the canvas wrapper at any moment.     *)

LeaveMaxHist == 2
LeaveMaxElems == 1
LeaveMaxPts == 2

LeaveKeyEvents == {KeyEvent(k, FALSE, FALSE, FALSE) : k \in {"q", "w"}}

NextLeave ==
    \/ MouseDown(Coords, DrawTimes) /\ UNCHANGED script
    \/ MouseMove(Coords, LeaveMaxPts) /\ UNCHANGED script
    \/ MouseUp(LeaveMaxElems, LeaveMaxHist) /\ UNCHANGED script
    \/ handleMouseLeave /\ UNCHANGED script
    \/ KeyDown(LeaveKeyEvents, LeaveMaxHist) /\ UNCHANGED script

SpecLeave == Init /\ [][NextLeave]_vars

---------------------------------------------------------------------------
(* Claims *)

\* C1: from the initial state, after N commits with no other history-changing
\* event in between, N undos leave the scene empty with the cursor at -1, and
\* N redos then restore the scene that existed after the N-th commit.
C1_UndoAllRedoAll ==
    /\ (script.phase = "undo" /\ script.undone = script.n)
           => (elements = <<>> /\ historyIndex = -1)
    /\ (script.phase = "redo" /\ script.redone = script.n)
           => elements = script.final

\* Two commits, the last of a non-empty scene that differs from the one before,
\* have been undone and redone.
C1_Witness ==
    /\ script.phase = "redo"
    /\ script.n = 2
    /\ script.redone = script.n
    /\ script.final # <<>>
    /\ history[1] # script.final

\* C2: from any reachable state with historyIndex >= 0, undo immediately
\* followed by redo leaves the live scene's element list equal by value to
\* what it was before the undo.
C2_UndoRedoRoundTrip ==
    historyIndex >= 0 => redoOn(undoOn(HistoryState)).elements = elements

\* C3: a commit at cursor i discards every entry after i, appends the
\* committed scene as entry i+1 and sets the cursor to i+1, so that the cursor
\* is at the last index, redo is a no-op, and entries 0..i are unchanged.
C3_CommitTruncatesAndAppends ==
    [][CommitStep =>
          /\ history' = Append(SubSeq(history, 1, historyIndex + 1), elements')
          /\ historyIndex' = historyIndex + 1
          /\ historyIndex' = Len(history') - 1
          /\ \A k \in 1..(historyIndex + 1) : history'[k] = history[k]
          /\ redoOn(HistoryState') = HistoryState']_vars

\* A commit has just been taken with redo entries beyond the cursor, which it
\* discarded.
C3_Witness ==
    /\ last.op \in {"mouseUp", "clear", "delete"}
    /\ last.historyIndex < last.historyLen - 1
    /\ historyIndex = last.historyIndex + 1
    /\ Len(history) = last.historyIndex + 2
    /\ Len(history) <= last.historyLen

\* C4: undo at cursor -1, and redo at the last index (or on an empty history),
\* change nothing.
C4_BoundaryUndoRedoNoOp ==
    [][(\/ UndoStep /\ historyIndex = -1
        \/ RedoStep /\ historyIndex >= Len(history) - 1)
       => UNCHANGED progVars]_vars

\* A redo has just run at the last index of a non-empty history with an
\* element selected.
C4_Witness ==
    /\ last.op = "redo"
    /\ last.historyLen > 0
    /\ last.historyIndex = last.historyLen - 1
    /\ last.selected

\* C5: -1 <= historyIndex <= Len(history) - 1, and whenever action = none the
\* live scene equals history[historyIndex] (the empty scene at -1).
C5_LiveSceneIsCursorEntry ==
    /\ -1 <= historyIndex
    /\ historyIndex <= Len(history) - 1
    /\ action = "none" => elements = SceneAtCursor

\* C6: every undo run at a cursor >= 0 leaves the selection empty.
C6_UndoClearsSelection ==
    (last.op = "undo" /\ last.historyIndex >= 0) => selectedId = Null

\* An undo has just run at a cursor >= 0 with an element selected.
C6_Witness ==
    /\ last.op = "undo"
    /\ last.historyIndex >= 0
    /\ last.selected
    /\ selectedId = Null

\* C7: a pointer-move never changes the history or the cursor, whether the
\* interaction state is idle, drawing or moving, and the history changes only
\* in a pointer-up that finishes a draw or a move, a delete, or a clear.
C7_MoveNeverTouchesHistory ==
    [][/\ StepIs("mouseMove") => UNCHANGED <<history, historyIndex>>
       /\ history' # history => /\ last'.op \in {"mouseUp", "delete", "clear"}
                                /\ last'.op = "mouseUp" => MouseUpCommits]_vars

\* A pointer-move in the moving state has just displaced the selected element
\* of a committed scene, so that the live scene differs from the entry at the
\* cursor.
C7_Witness ==
    /\ last.op = "mouseMove"
    /\ last.action = "moving"
    /\ historyIndex >= 0
    /\ last.historyIndex = historyIndex
    /\ last.historyLen = Len(history)
    /\ elements # history[historyIndex + 1]

C9_RectangleScenario ==
    LET RectAt(s, px, py) ==
            /\ Len(s) = 1
            /\ s[1].type = "rectangle"
            /\ s[1].x = px /\ s[1].y = py
            /\ Has(s[1], "width") /\ s[1].width = 100
            /\ Has(s[1], "height") /\ s[1].height = 50
    IN  /\ script.pc \in {4, 5} => /\ RectAt(elements, 10, 10)
                                  /\ history = <<elements>>
                                  /\ historyIndex = 0
        /\ script.pc = 6 => /\ action = "moving"
                            /\ selectedId = elements[1].id
                            /\ startOffset = Point(50, 25)
                            /\ RectAt(elements, elements[1].x, elements[1].y)
        /\ script.pc = 7 => RectAt(elements, 70, 65)
        /\ script.pc = 8 => /\ RectAt(elements, 70, 65)
                            /\ Len(history) = 2
                            /\ history[2] = elements
                            /\ historyIndex = 1
        /\ script.pc = 9 => RectAt(elements, 10, 10) /\ historyIndex = 0
        /\ script.pc = 10 => elements = <<>> /\ historyIndex = -1

\* The scenario has run to its end: both commits are in the history, the
\* second with the rectangle at (70,65), and both have been undone.
C9_Witness ==
    /\ script.pc = 10
    /\ Len(history) = 2
    /\ history[1][1].x = 10
    /\ history[2][1].x = 70
    /\ history[2][1].y = 65
    /\ elements = <<>>

\* C10: a delete or backspace key without ctrl/meta, pressed while an element
\* is selected, removes exactly one element, the one whose id is the selected
\* id, keeps every other element in order, appends one history entry equal to
\* the resulting scene, and leaves the selection empty.
C10_DeleteRemovesExactlyOne ==
    [][(StepIs("delete") /\ selectedId # Null) =>
          /\ \E i \in 1..Len(elements) :
                 /\ elements[i].id = selectedId
                 /\ elements' = SubSeq(elements, 1, i - 1)
                                    \o SubSeq(elements, i + 1, Len(elements))
          /\ history' = Append(SubSeq(history, 1, historyIndex + 1), elements')
          /\ selectedId' = Null]_vars

\* C11: a delete or backspace key pressed while nothing is selected changes
\* nothing: scene, history, cursor, tool and interaction state stay as they
\* are.
C11_DeleteWithoutSelectionNoOp ==
    [][(StepIs("delete") /\ selectedId = Null) => UNCHANGED progVars]_vars

\* A delete key has just been handled with nothing selected, on a scene that
\* holds an element and a history that holds its commit.
C11_Witness ==
    /\ last.op = "delete"
    /\ ~last.selected
    /\ Len(elements) >= 1
    /\ historyIndex >= 0

\* C12: the elements of the live scene, and of every history snapshot, have
\* pairwise distinct ids: an element created later never has the id of an
\* element created earlier.
C12_DistinctIds ==
    LET Distinct(s) == \A i, j \in 1..Len(s) : i # j => s[i].id # s[j].id
    IN  /\ Distinct(elements)
        /\ \A k \in 1..Len(history) : Distinct(history[k])

\* C13: every element of the scene, and the in-progress element, carries
\* exactly the geometry fields of its type: points and no width, height or
\* radius for pen and eraser; width and height and no points or radius for
\* rectangle and line; radius and no points, width or height for circle.
C13_GeometryMatchesType ==
    LET Fields(el) == DOMAIN el \cap {"points", "width", "height", "radius"}
        Required(el) ==
            CASE el.type \in {"pen", "eraser"} -> {"points"}
              [] el.type \in {"rectangle", "line"} -> {"width", "height"}
              [] el.type = "circle" -> {"radius"}
              [] OTHER -> {}
    IN  /\ \A i \in 1..Len(elements) : Fields(elements[i]) = Required(elements[i])
        /\ currentElement # NullObj => Fields(currentElement) = Required(currentElement)

\* C14: a select-tool pointer-down on a scene of circles hits one exactly
\* when, for some circle of centre c and radius r, the Euclidean distance d
\* from the pointer to c is at most r + 10: it hits at d = r + 10 and misses
\* beyond. With d2 = d^2 and r2 = r^2, d - 10 <= r is d2 <= 100, or
\* t <= 20 * d for t = d2 + 100 - r2.
C14_CircleHitWithinRadiusPlus10 ==
    (Probed /\ \A i \in 1..Len(elements) : elements[i].type = "circle") =>
        LET Near(el) ==
                LET r2 == IF Has(el, "radius") THEN el.radius.sqrt ELSE 0
                    d2 == Sq(script.probe.x - el.x) + Sq(script.probe.y - el.y)
                    t == d2 + 100 - r2
                IN  d2 <= 100 \/ t <= 0 \/ Sq(t) <= 400 * d2
        IN  selectedId # Null <=> \E i \in 1..Len(elements) : Near(elements[i])

\* A circle of radius 5 has just been hit by a pointer-down at distance
\* exactly 15 from its centre, off the axes.
C14_Witness ==
    /\ Probed
    /\ elements[1].type = "circle"
    /\ Has(elements[1], "radius")
    /\ elements[1].radius.sqrt = 25
    /\ Abs(script.probe.x - elements[1].x) = 9
    /\ Abs(script.probe.y - elements[1].y) = 12
    /\ selectedId = elements[1].id

\* C15: a select-tool pointer-down on a rectangle or line, whatever the sign
\* of its width and height (zero and absent included), hits it exactly when
\* the pointer lies in the bounding box spanned by the origin and
\* origin + (width, height), grown by 10 on each of its four sides.
C15_BoxHitWithin10 ==
    (Probed /\ \A i \in 1..Len(elements) : elements[i].type \in {"rectangle", "line"}) =>
        LET InBox(el) ==
                LET wd == IF Has(el, "width") THEN el.width ELSE 0
                    ht == IF Has(el, "height") THEN el.height ELSE 0
                    left == IF wd < 0 THEN el.x + wd ELSE el.x
                    right == IF wd < 0 THEN el.x ELSE el.x + wd
                    top == IF ht < 0 THEN el.y + ht ELSE el.y
                    bottom == IF ht < 0 THEN el.y ELSE el.y + ht
                    px == script.probe.x
                    py == script.probe.y
                IN  /\ left - 10 <= px /\ px <= right + 10
                    /\ top - 10 <= py /\ py <= bottom + 10
        IN  selectedId # Null <=> \E i \in 1..Len(elements) : InBox(elements[i])

\* C16 (as stated): a select-tool pointer-down on a pen or eraser stroke hits
\* it exactly when some point of its path is at Euclidean distance at most 15
\* from the pointer, whatever the stroke's x, y, width and height.
C16_FreehandHitAtMost15 ==
    (Probed /\ \A j \in 1..Len(elements) : elements[j].type \in {"pen", "eraser"}) =>
        selectedId # Null <=>
            \E j \in 1..Len(elements) : \E i \in 1..Len(elements[j].points) :
                Sq(script.probe.x - elements[j].points[i].x)
                    + Sq(script.probe.y - elements[j].points[i].y) <= 225

\* C16 (amended): a select-tool pointer-down on a pen or eraser stroke hits
\* it exactly when some point of its path is at Euclidean distance strictly
\* less than 15 from the pointer, whatever the stroke's x, y, width and
\* height; a pointer at distance exactly 15 from the nearest point misses.
C16_FreehandHitBelow15 ==
    (Probed /\ \A j \in 1..Len(elements) : elements[j].type \in {"pen", "eraser"}) =>
        selectedId # Null <=>
            \E j \in 1..Len(elements) : \E i \in 1..Len(elements[j].points) :
                Sq(script.probe.x - elements[j].points[i].x)
                    + Sq(script.probe.y - elements[j].points[i].y) < 225

\* A stroke of two points that also carries a width has just been hit by a
\* pointer-down 14px from its second point and more than 15px from its first.
C16_Witness ==
    /\ Probed
    /\ elements[1].type = "pen"
    /\ Has(elements[1], "width")
    /\ elements[1].points = <<Point(0, 0), Point(3, 4)>>
    /\ script.probe = Point(17, 4)
    /\ selectedId = elements[1].id

\* C17: an element whose bounding box has no area (a rectangle or line whose
\* width or height is 0 or absent, a circle whose radius is 0 or absent, a
\* stroke of a single point) is hit by a select-tool pointer-down on its own
\* geometry: its origin, a point of the segment from the origin to
\* origin + (width, height), or a path point.
C17_DegenerateElementIsHit ==
    Probed =>
        LET px == script.probe.x
            py == script.probe.y
            Wd(el) == IF Has(el, "width") THEN el.width ELSE 0
            Ht(el) == IF Has(el, "height") THEN el.height ELSE 0
            Between(a, v, b) == (a <= v /\ v <= b) \/ (b <= v /\ v <= a)
            Degenerate(el) ==
                CASE el.type \in {"rectangle", "line"} -> Wd(el) = 0 \/ Ht(el) = 0
                  [] el.type = "circle" -> RadicandOrZero(el) = 0
                  [] OTHER -> Len(el.points) = 1
            OnGeometry(el) ==
                CASE el.type \in {"rectangle", "line"} ->
                         /\ Between(el.x, px, el.x + Wd(el))
                         /\ Between(el.y, py, el.y + Ht(el))
                  [] el.type = "circle" -> px = el.x /\ py = el.y
                  [] OTHER -> \E i \in 1..Len(el.points) : el.points[i] = script.probe
        IN  \A i \in 1..Len(elements) :
                (Degenerate(elements[i]) /\ OnGeometry(elements[i])) =>
                    /\ selectedId # Null
                    /\ i = Len(elements) => selectedId = elements[i].id

\* A horizontal line drawn from right to left (width -3, height 0) has just
\* been hit by a pointer-down on the line, between its ends.
C17_Witness ==
    /\ Probed
    /\ elements[1].type = "line"
    /\ Has(elements[1], "width")
    /\ elements[1].width = -3
    /\ elements[1].height = 0
    /\ script.probe = Point(elements[1].x - 1, elements[1].y)
    /\ selectedId = elements[1].id

\* C18: after a select-tool pointer-down, the selected element is the one
\* latest in scene order among those that pass the hit test at the pointer,
\* and nothing is selected when none passes.
C18_TopmostHitIsSelected ==
    Probed =>
        LET passing == {i \in 1..Len(elements) :
                           isWithinElement(script.probe.x, script.probe.y, elements[i])}
        IN  IF passing = {}
            THEN selectedId = Null /\ action = "none"
            ELSE /\ \E i \in passing :
                       /\ \A j \in passing : j <= i
                       /\ selectedId = elements[i].id
                       /\ startOffset = Point(script.probe.x - elements[i].x,
                                               script.probe.y - elements[i].y)
                 /\ action = "moving"

\* Two elements of different ids both pass the hit test at the pointer, and
\* the pointer-down has selected the second.
C18_Witness ==
    /\ Probed
    /\ Len(elements) = 2
    /\ elements[1].id # elements[2].id
    /\ isWithinElement(script.probe.x, script.probe.y, elements[1])
    /\ isWithinElement(script.probe.x, script.probe.y, elements[2])
    /\ selectedId = elements[2].id

\* C19: while a selected element is moved, after each pointer-move the origin
\* of every element with the selected id is the pointer minus the drag offset
\* recorded at pointer-down, every point of its path is translated by the
\* same delta as its origin, and the number of points, width, height, radius,
\* colour, stroke width, type and id are what they were; so after a drag by
\* (dx, dy), and after the drop, the origin and every path point of the
\* grabbed element are those at pointer-down plus (dx, dy).
C19_DragTranslatesRigidly ==
    (script.phase = "probe" /\ script.moved) =>
        LET g == script.scene[script.grabbed]
            el == elements[script.grabbed]
            dx == cursorPos.x - script.probe.x
            dy == cursorPos.y - script.probe.y
        IN  /\ startOffset = Point(script.probe.x - g.x, script.probe.y - g.y)
            /\ el.id = selectedId
            /\ el.x = g.x + dx
            /\ el.y = g.y + dy
            /\ \A k \in 1..Len(g.points) :
                   el.points[k] = Point(g.points[k].x + dx, g.points[k].y + dy)
            /\ Len(elements) = Len(script.scene)
            /\ \A j \in 1..Len(elements) :
                   LET was == script.scene[j]
                       now == elements[j]
                   IN  now.id = selectedId =>
                           /\ now.x = cursorPos.x - startOffset.x
                           /\ now.y = cursorPos.y - startOffset.y
                           /\ Len(now.points) = Len(was.points)
                           /\ \A k \in 1..Len(was.points) :
                                  now.points[k] = Point(was.points[k].x + now.x - was.x,
                                                        was.points[k].y + now.y - was.y)
                           /\ [now EXCEPT !.x = was.x, !.y = was.y,
                                          !.points = was.points] = was

\* A stroke of two points has been dragged through several positions and
\* dropped away from where it was grabbed.
C19_Witness ==
    /\ script.phase = "probe"
    /\ script.moved
    /\ last.op = "mouseUp"
    /\ script.scene[script.grabbed].type = "pen"
    /\ Len(script.scene[script.grabbed].points) = 2
    /\ script.scene[script.grabbed].points[1] # script.scene[script.grabbed].points[2]
    /\ cursorPos = Point(-7, 20)
    /\ elements[script.grabbed].points[2] # script.scene[script.grabbed].points[2]
    /\ Len(history) = 2

\* C20: a key pressed with ctrl or meta held runs undo (z without shift),
\* runs redo (z with shift, or y), or does nothing: it never sets the tool,
\* the colour or the stroke width, and it changes the selection and the scene
\* only as undo and redo do; a key pressed without ctrl and meta never moves
\* the history cursor back, and moves it forward only by the commit of a
\* delete.
C20_ModifierKeysOnlyUndoRedo ==
    [][script'.key # NullObj =>
          LET e == script'.key
              isCtrl == e.ctrlKey \/ e.metaKey
              key == ToLowerCase(e.key)
              rest == UNCHANGED <<history, tool, color, lineWidth, action,
                                  currentElement, startOffset, cursorPos>>
          IN  IF isCtrl
              THEN \/ key = "z" /\ ~e.shiftKey /\ HistoryState' = undoOn(HistoryState) /\ rest
                   \/ key = "z" /\ e.shiftKey /\ HistoryState' = redoOn(HistoryState) /\ rest
                   \/ key = "y" /\ HistoryState' = redoOn(HistoryState) /\ rest
                   \/ key \notin {"z", "y"} /\ UNCHANGED progVars
              ELSE /\ historyIndex' >= historyIndex
                   /\ historyIndex' # historyIndex =>
                          /\ key \in {"backspace", "delete"}
                          /\ selectedId # Null
                          /\ selectedId' = Null
                          /\ history' = Append(SubSeq(history, 1, historyIndex + 1),
                                               elements')
                   /\ historyIndex' = historyIndex =>
                          UNCHANGED <<elements, history, selectedId>>]_vars

\* meta+Backspace has just been pressed with the scene's element selected,
\* and the element is still there and still selected.
C20_Witness ==
    /\ script.key = KeyEvent("Backspace", FALSE, TRUE, FALSE)
    /\ Len(elements) = 1
    /\ selectedId = elements[1].id

\* C21: a pointer-up that ends the drawing of an eraser stroke appends the
\* stroke, with type eraser, at the end of the scene and leaves every element
\* that was there as it was, so the scene grows by exactly one; a single undo
\* then gives back the elements that were there before the stroke (the same
\* ids in the same order), without the stroke; and the stroke is hit exactly
\* where a pen stroke of the same path is: at a pointer less than 15 from one
\* of its points.
C21_EraserStrokeIsAppended ==
    [][(/\ StepIs("mouseUp")
        /\ action = "drawing"
        /\ currentElement # NullObj
        /\ currentElement.type = "eraser")
       => LET stroke == currentElement
              undone == undoOn(HistoryState').elements
          IN  /\ elements' = Append(elements, stroke)
              /\ Len(elements') = Len(elements) + 1
              /\ elements'[Len(elements')].type = "eraser"
              /\ Len(undone) = Len(elements)
              /\ \A i \in 1..Len(undone) : undone[i].id = elements[i].id
              /\ \A p \in EraseProbes :
                     /\ isWithinElement(p.x, p.y, stroke)
                            <=> \E i \in 1..Len(stroke.points) :
                                    Sq(p.x - stroke.points[i].x)
                                        + Sq(p.y - stroke.points[i].y) < 225
                     /\ isWithinElement(p.x, p.y, stroke)
                            <=> isWithinElement(p.x, p.y, [stroke EXCEPT !.type = "pen"])]_vars

\* An eraser stroke of two points has just been put over a pen stroke.
C21_Witness ==
    /\ last.op = "mouseUp"
    /\ action = "none"
    /\ Len(elements) = 2
    /\ elements[1].type = "pen"
    /\ elements[2].type = "eraser"
    /\ Len(elements[2].points) = 2
    /\ historyIndex = 1
    /\ history[2] = elements

\* C22: in the profile revision there are always exactly 5 profiles and the
\* active profile index is always in 0..4; a colour or width edit changes the
\* profile at the active index, by the edited field only, and leaves every
\* other profile and the index as they were; and a pointer-down with a
\* drawing tool starts an element with the colour and width of the profile
\* active at that moment.
C22_ProfilesFrame ==
    /\ [](Len(profiles) = 5 /\ activeProfileIndex \in 0..4)
    /\ [][/\ (StepIs("setColor") \/ StepIs("setLineWidth")) =>
                /\ activeProfileIndex' = activeProfileIndex
                /\ \A i \in 1..5 : i # activeProfileIndex + 1 => profiles'[i] = profiles[i]
                /\ StepIs("setColor") =>
                       profiles'[activeProfileIndex + 1].lineWidth = activeProfile.lineWidth
                /\ StepIs("setLineWidth") =>
                       profiles'[activeProfileIndex + 1].color = activeProfile.color
          /\ ~(StepIs("setColor") \/ StepIs("setLineWidth")) => profiles' = profiles
          /\ (StepIs("mouseDown") /\ tool # "select") =>
                /\ currentElement'.color = activeProfile.color
                /\ currentElement'.lineWidth = activeProfile.lineWidth]_vars

\* The last profile has been edited in colour and width while the others
\* keep their initial values, and an element drawn with it is in the scene.
C22_Witness ==
    /\ activeProfileIndex = 4
    /\ profiles[5] = PenProfile("#8b5cf6", 40)
    /\ profiles[1] = PenProfile("#000000", 2)
    /\ profiles[3] = PenProfile("#dc2626", 10)
    /\ Len(elements) = 1
    /\ elements[1].color = "#8b5cf6"
    /\ elements[1].lineWidth = 40

\* C23: right after the pointer-up of a draw gesture (a pointer-down with
\* pen, eraser, rectangle, circle or line, any number of pointer-moves, the
\* pointer-up) the scene is the scene of the pointer-down with exactly one
\* element appended; that element has the tool of the pointer-down as its
\* type, the pointer-down position as its origin and the colour and width of
\* that moment; no element is in progress and the state is idle.
C23_GestureAppendsOneElement ==
    script.done =>
        LET d == script.down
            n == Len(d.scene)
        IN  /\ d.tool \in {"pen", "eraser", "rectangle", "circle", "line"}
            /\ Len(elements) = n + 1
            /\ \A i \in 1..n : elements[i] = d.scene[i]
            /\ elements[n + 1].type = d.tool
            /\ elements[n + 1].x = d.p.x
            /\ elements[n + 1].y = d.p.y
            /\ elements[n + 1].color = d.color
            /\ elements[n + 1].lineWidth = d.lineWidth
            /\ currentElement = NullObj
            /\ action = "none"

\* A red circle of width 40 has just been drawn, with two pointer-moves,
\* over a stroke in the initial style.
C23_Witness ==
    /\ script.done
    /\ script.moves = 2
    /\ Len(elements) = 2
    /\ elements[1].type = "pen"
    /\ elements[1].color = "#2563eb"
    /\ elements[2].type = "circle"
    /\ elements[2].color = "#dc2626"
    /\ elements[2].lineWidth = 40
    /\ elements[2].x = 40

\* C24: while a rectangle or line element is in progress, each pointer-move
\* at p leaves it with width = p.x - origin.x and height = p.y - origin.y
\* (negative values included) and with its origin where the pointer-down put
\* it, so that the committed width and height are those of the last
\* pointer-move alone.
C24_ShapeFollowsPointer ==
    [][(/\ StepIs("mouseMove")
        /\ action = "drawing"
        /\ currentElement # NullObj
        /\ currentElement.type \in {"rectangle", "line"})
       => /\ currentElement'.x = currentElement.x
          /\ currentElement'.y = currentElement.y
          /\ Has(currentElement', "width")
          /\ Has(currentElement', "height")
          /\ currentElement'.width = cursorPos'.x - currentElement.x
          /\ currentElement'.height = cursorPos'.y - currentElement.y]_vars

\* C25: while a pen or eraser element is in progress, each pointer-move
\* appends exactly one point, the pointer position, to the end of its path
\* and changes no earlier point; so the path of a pointer-down followed by k
\* pointer-moves has k + 1 points, the first being the pointer-down position.
C25_FreehandPathGrowsByMove ==
    [][(/\ StepIs("mouseMove")
        /\ action = "drawing"
        /\ currentElement # NullObj
        /\ currentElement.type \in {"pen", "eraser"})
       => currentElement'.points = Append(currentElement.points, cursorPos')]_vars

\* C26: the draw or move in progress stops on pointer-up and on
\* pointer-leave: right after either event the interaction state is idle
\* (action = none), so that a later pointer-move extends no stroke and drags
\* no element.
C26_UpAndLeaveStop ==
    [][(StepIs("mouseUp") \/ StepIs("mouseLeave")) => action' = "none"]_vars

\* C27: in every reachable state, whatever the order of pointer and key
\* events (undo, redo, clear and delete during a drag included), the
\* selection is empty or is the id of an element of the live scene.
C27_SelectionInScene ==
    selectedId = Null \/ \E i \in 1..Len(elements) : elements[i].id = selectedId

\* C28: in every reachable state, whatever the sequence of pointer-down,
\* pointer-move, pointer-up and tool-switch events, an element is in progress
\* exactly while drawing: currentElement is non-null if and only if
\* action = drawing.
C28_InProgressOnlyWhileDrawing ==
    currentElement # NullObj <=> action = "drawing"

\* C29: a pointer-move in the moving state changes no layering: the scene
\* keeps its length and the order of its ids, every element whose id is not
\* the selected one keeps its value, and the history, with every snapshot
\* stored in it, and the cursor stay as they were.
C29_MoveKeepsLayering ==
    [][(StepIs("mouseMove") /\ action = "moving")
       => /\ Len(elements') = Len(elements)
          /\ \A i \in 1..Len(elements) : elements'[i].id = elements[i].id
          /\ \A i \in 1..Len(elements) :
                 elements[i].id # selectedId => elements'[i] = elements[i]
          /\ history' = history
          /\ historyIndex' = historyIndex]_vars

\* The lower of two elements with distinct ids has just been dragged away
\* from where the latest snapshot has it, and is still the lower one.
C29_Witness ==
    /\ last.op = "mouseMove"
    /\ last.action = "moving"
    /\ action = "moving"
    /\ Len(elements) = 2
    /\ elements[1].id # elements[2].id
    /\ selectedId = elements[1].id
    /\ historyIndex = 1
    /\ history[2][1].id = elements[1].id
    /\ history[2][1] # elements[1]
    /\ history[2][2] = elements[2]

=============================================================================
